---- MODULE Spec2Model ----
(***************************************************************************)
(* A model of src/src/codec.rs: the STUN (RFC 3489) datagram codec.        *)
(*                                                                         *)
(* The codec is stateless; one behaviour of the model is one call of       *)
(* StunCodec::decode, of StunCodec::encode, or of the address-record codec *)
(* (Attribute::encode_address followed by Attribute::read_address).  The   *)
(* call's inputs are drawn in Init, and `pc` is the position inside the    *)
(* call.                                                                   *)
(*                                                                         *)
(* Representation of machine integers: u8 and u16 are TLA+ integers; a u32 *)
(* is a sequence of two and a u64 a sequence of four 16-bit limbs, most    *)
(* significant first, because the model checker's integers are 32 bits     *)
(* wide and signed.  A byte buffer is a sequence of integers in 0..255, a  *)
(* cursor position is a 0-based offset into it.                            *)
(***************************************************************************)
EXTENDS Integers, Sequences, FiniteSets, TLC

VARIABLES
    call,               \* which call this is: "decode", "encode" or "address"
    pc,                 \* position in the call: "decode", "attrs", "verify",
                        \* "encode", "encode_address", "read_address", "done"
    res,                \* what the call returned (Pending until it returns)
    msg,                \* decode: the datagram, msg: &[u8]
    layout,             \* decode: how the datagram was put together (input description)
    pos,                \* decode: the Cursor's position
    mapped_address,     \* decode: locals of read_binding_response
    source_address,
    changed_address,
    message_integrity,
    reflected_from,
    trans_id2,          \* decode: the second half of the transaction id
    trunc,              \* decode: history, the buffer ended inside an attribute body
    out,                \* encode: the argument (trans_id, dst, req)
    buf,                \* encode / address codec: the output buffer
    buf0,               \* encode: history, buf as it was handed in
    addr                \* address codec: the endpoint handed to encode_address

vars == <<call, pc, res, msg, layout, pos, mapped_address, source_address,
          changed_address, message_integrity, reflected_from, trans_id2,
          trunc, out, buf, buf0, addr>>

(***************************************************************************)
(* Option and Result values, and a panic (unwrap on Err, unimplemented!).  *)
(***************************************************************************)
None == [some |-> FALSE]
Some(x) == [some |-> TRUE, v |-> x]

Pending == [tag |-> "Pending"]
Ok(x) == [tag |-> "Ok", v |-> x]
Err(kind, reason) == [tag |-> "Err", kind |-> kind, reason |-> reason]
Panic(reason) == [tag |-> "Panic", reason |-> reason]

(***************************************************************************)
(* Protocol constants (codec.rs lines 250-271).                            *)
(***************************************************************************)
BINDING_REQUEST == 1            \* 0x0001
BINDING_RESPONSE == 257         \* 0x0101
BINDING_ERROR == 273            \* 0x0111
SHARED_SECRET_REQUEST == 2      \* 0x0002
SHARED_SECRET_RESPONSE == 258   \* 0x0102
SHARED_SECRET_ERROR == 274      \* 0x0112

MAPPED_ADDRESS == 1
RESPONSE_ADDRESS == 2
CHANGE_REQUEST == 3
SOURCE_ADDRESS == 4
CHANGED_ADDRESS == 5
USERNAME == 6
MESSAGE_INTEGRITY == 8
REFLECTED_FROM == 11

CHANGE_REQUEST_IP == <<0, 32>>            \* 0x20 as a u32
CHANGE_REQUEST_PORT == <<0, 64>>          \* 0x40
CHANGE_REQUEST_IP_AND_PORT == <<0, 96>>   \* 0x60

(***************************************************************************)
(* byteorder on a Cursor<&[u8]>: a read of n bytes at offset p succeeds    *)
(* when the buffer holds them and fails with UnexpectedEof otherwise.  A   *)
(* position past the end (after a seek) reads as end of input.             *)
(***************************************************************************)
ReadBytes(m, p, n) ==
    IF p + n <= Len(m)
    THEN Ok([val |-> SubSeq(m, p + 1, p + n), pos |-> p + n])
    ELSE Err("UnexpectedEof", "failed to fill whole buffer")

\* The big-endian value of the bytes read (r is the result of ReadBytes).
U8Of(r) ==
    IF r.tag = "Ok" THEN Ok([val |-> r.v.val[1], pos |-> r.v.pos]) ELSE r

U16Of(r) ==
    IF r.tag = "Ok"
    THEN Ok([val |-> r.v.val[1] * 256 + r.v.val[2], pos |-> r.v.pos])
    ELSE r

U32Of(r) ==
    IF r.tag = "Ok"
    THEN Ok([val |-> << r.v.val[1] * 256 + r.v.val[2],
                        r.v.val[3] * 256 + r.v.val[4] >>,
             pos |-> r.v.pos])
    ELSE r

U64Of(r) ==
    IF r.tag = "Ok"
    THEN Ok([val |-> << r.v.val[1] * 256 + r.v.val[2],
                        r.v.val[3] * 256 + r.v.val[4],
                        r.v.val[5] * 256 + r.v.val[6],
                        r.v.val[7] * 256 + r.v.val[8] >>,
             pos |-> r.v.pos])
    ELSE r

ReadU8(m, p) == U8Of(ReadBytes(m, p, 1))
ReadU16(m, p) == U16Of(ReadBytes(m, p, 2))
ReadU32(m, p) == U32Of(ReadBytes(m, p, 4))
ReadU64(m, p) == U64Of(ReadBytes(m, p, 8))

WriteU8(b) == << b >>
WriteU16(v) == << v \div 256, v % 256 >>
WriteU32(l) == WriteU16(l[1]) \o WriteU16(l[2])
WriteU64(l) == WriteU16(l[1]) \o WriteU16(l[2]) \o WriteU16(l[3]) \o WriteU16(l[4])

\* `n as u16`
AsU16(n) == n % (256 * 256)

U64Zero == <<0, 0, 0, 0>>

(***************************************************************************)
(* Socket endpoints: SocketAddr::V4(ip, port) and SocketAddr::V6(ip, port) *)
(***************************************************************************)
SocketAddrV4(octets, port) == [fam |-> "V4", ip |-> octets, port |-> port]
SocketAddrV6(segments, port) == [fam |-> "V6", ip |-> segments, port |-> port]

(***************************************************************************)
(* Attribute::read_address (lines 171-188), one definition per read; each  *)
(* takes the result of the read before it.                                 *)
(***************************************************************************)
\* Lines 181-187: the octets of the u32 `a` and the endpoint.
SocketAddrOf(port, a) ==
    SocketAddrV4(<< a[1] \div 256,      \* (addr & 0xff000000) >> 24
                    a[1] % 256,         \* (addr & 0x00ff0000) >> 16
                    a[2] \div 256,      \* (addr & 0x0000ff00) >> 8
                    a[2] % 256 >>,      \* (addr & 0x000000ff) >> 0
                 port)

\* Lines 175-187: addr was read; the family check and the endpoint.
ReadAddressCheck(typ, port, a) ==
    IF a.tag # "Ok" THEN a
    ELSE IF typ # 1 THEN Err("InvalidData", "Invalid address family")
    ELSE Ok([val |-> SocketAddrOf(port, a.v.val), pos |-> a.v.pos])

\* Line 174-175: port was read.
ReadAddressAddr(m, typ, port) ==
    IF port.tag # "Ok" THEN port
    ELSE ReadAddressCheck(typ, port.v.val, ReadU32(m, port.v.pos))

\* Line 173-174: typ was read.
ReadAddressPort(m, typ) ==
    IF typ.tag # "Ok" THEN typ
    ELSE ReadAddressAddr(m, typ.v.val, ReadU16(m, typ.v.pos))

\* Line 172-173: the ignored byte was read.
ReadAddressFamily(m, r0) ==
    IF r0.tag # "Ok" THEN r0 ELSE ReadAddressPort(m, ReadU8(m, r0.v.pos))

read_address(m, p) == ReadAddressFamily(m, ReadU8(m, p))

(***************************************************************************)
(* Attribute::encode_address (lines 234-247).                              *)
(***************************************************************************)
\* A faulty variant: the port written little-endian.
encode_address_le(a) ==
    IF a.fam = "V4"
    THEN Ok(WriteU8(0) \o WriteU8(1) \o << a.port % 256, a.port \div 256 >> \o a.ip)
    ELSE Err("InvalidInput", "STUN does not support IPv6")

encode_address(a) ==
    IF a.fam = "V4"
    THEN Ok(WriteU8(0) \o WriteU8(1) \o WriteU16(a.port) \o a.ip)
    ELSE Err("InvalidInput", "STUN does not support IPv6")

(***************************************************************************)
(* Attribute::encode_change_request (lines 222-232).                       *)
(***************************************************************************)
encode_change_request(c) ==
    CASE c = "Ip" -> Ok(WriteU32(CHANGE_REQUEST_IP))
      [] c = "Port" -> Ok(WriteU32(CHANGE_REQUEST_PORT))
      [] c = "IpAndPort" -> Ok(WriteU32(CHANGE_REQUEST_IP_AND_PORT))

(***************************************************************************)
(* Attribute::encode (lines 190-220): the TLV it appends to its buffer, or *)
(* the error it returns before anything was written.  An attribute is a    *)
(* record [tag, v].                                                        *)
(***************************************************************************)
PaddedLen(n) == 4 * ((n + 3) \div 4)      \* (4.0*(n as f64 / 4.0).ceil()) as usize

RECURSIVE Fill(_, _)
Fill(n, b) == IF n <= 0 THEN << >> ELSE << b >> \o Fill(n - 1, b)

Zeros(n) == Fill(n, 0)

Tlv(typ, opaque) == WriteU16(typ) \o WriteU16(AsU16(Len(opaque))) \o opaque

\* buf.write_all(..) of an encoded attribute r (a Result) after the bytes b.
AppendTo(b, r) == IF r.tag # "Ok" THEN r ELSE Ok(b \o r.v)

AttributeType(a) ==
    CASE a.tag = "MappedAddress" -> MAPPED_ADDRESS
      [] a.tag = "ResponseAddress" -> RESPONSE_ADDRESS
      [] a.tag = "ChangedAddress" -> CHANGED_ADDRESS
      [] a.tag = "SourceAddress" -> SOURCE_ADDRESS
      [] a.tag = "ReflectedFrom" -> REFLECTED_FROM
      [] a.tag = "MessageIntegrity" -> MESSAGE_INTEGRITY
      [] a.tag = "Username" -> USERNAME
      [] a.tag = "ChangeRequest" -> CHANGE_REQUEST

AttributeOpaque(a) ==
    CASE a.tag \in {"MappedAddress", "ResponseAddress", "ChangedAddress",
                    "SourceAddress", "ReflectedFrom"} -> encode_address(a.v)
      [] a.tag = "MessageIntegrity" -> Ok(a.v)
      [] a.tag = "Username" -> Ok(a.v \o Zeros(PaddedLen(Len(a.v)) - Len(a.v)))
      [] a.tag = "ChangeRequest" -> encode_change_request(a.v)

\* Lines 215-219: the TLV is written once the body is there.
WriteAttribute(typ, opaque) ==
    IF opaque.tag # "Ok" THEN opaque ELSE Ok(Tlv(typ, opaque.v))

Attribute_encode(a) == WriteAttribute(AttributeType(a), AttributeOpaque(a))

(***************************************************************************)
(* BindRequest::encode (lines 43-59).                                      *)
(***************************************************************************)
\* `field` as the attribute `tag`, appended to the buffer b (a Result); an
\* absent field appends nothing, an error ends the function (the ? operator).
EncodeField(b, tag, field) ==
    IF b.tag # "Ok" \/ ~field.some THEN b
    ELSE AppendTo(b.v, Attribute_encode([tag |-> tag, v |-> field.v]))

BindRequest_encode(r) ==
    EncodeField(
        EncodeField(
            EncodeField(Ok(<< >>), "ResponseAddress", r.response_address),
            "ChangeRequest", r.change_request),
        "Username", r.username)

(***************************************************************************)
(* StunCodec::encode (lines 300-331): the value returned (or the panic)    *)
(* and the buffer afterwards.  o = [trans_id, dst, req], b = the buffer.   *)
(***************************************************************************)
\* Lines 304-313, m = bind.encode().
WriteMessage(o, b, m) ==
    IF m.tag # "Ok"
    THEN [res |-> Panic("called Result::unwrap() on an Err value"), buf |-> b]
    ELSE [res |-> Ok(o.dst),
          buf |-> b \o WriteU16(BINDING_REQUEST)
                    \o WriteU16(AsU16(Len(m.v)))
                    \o WriteU64(U64Zero)
                    \o WriteU64(o.trans_id)
                    \o m.v]

StunCodec_encode(o, b) ==
    IF o.req.tag = "Bind"
    THEN WriteMessage(o, b, BindRequest_encode(o.req.v))
    ELSE [res |-> Panic("not implemented"), buf |-> b]

(***************************************************************************)
(* Attribute::read (lines 140-169).  Ok([val |-> attribute, pos |-> the    *)
(* cursor afterwards]) or the error.                                       *)
(***************************************************************************)
\* A faulty variant: the boundary code 0x7fff taken for optional.
IsMandatoryCodeStrict(typ) == typ < 32767

IsMandatoryCode(typ) == typ <= 32767      \* typ <= 0x7fff

\* A faulty variant: SeekFrom::Start in place of SeekFrom::Current.
SeekFromStart(p, len) == len

SeekFromCurrent(p, len) == p + len        \* c.seek(SeekFrom::Current(len as i64))

\* Lines 145-149: s is the result of read_address.
AddressAttribute(tag, s) ==
    IF s.tag # "Ok" THEN s
    ELSE Ok([val |-> [tag |-> tag, v |-> s.v.val], pos |-> s.v.pos])

\* Lines 150-154: h is the result of read_exact on 20 bytes.
IntegrityAttribute(h) ==
    IF h.tag # "Ok" THEN h
    ELSE Ok([val |-> [tag |-> "MessageIntegrity", v |-> h.v.val], pos |-> h.v.pos])

\* Lines 155-162: w is the result of read_u32.
ChangeRequestAttribute(w) ==
    IF w.tag # "Ok" THEN w
    ELSE IF w.v.val = CHANGE_REQUEST_IP
    THEN Ok([val |-> [tag |-> "ChangeRequest", v |-> "Ip"], pos |-> w.v.pos])
    ELSE IF w.v.val = CHANGE_REQUEST_PORT
    THEN Ok([val |-> [tag |-> "ChangeRequest", v |-> "Port"], pos |-> w.v.pos])
    ELSE IF w.v.val = CHANGE_REQUEST_IP_AND_PORT
    THEN Ok([val |-> [tag |-> "ChangeRequest", v |-> "IpAndPort"], pos |-> w.v.pos])
    ELSE Err("InvalidData", "CHANGE_REQUEST not understood")

\* Lines 144-168: the match on typ, with the cursor at `body`.
ReadAttributeBody(m, typ, len, body) ==
    CASE typ = MAPPED_ADDRESS -> AddressAttribute("MappedAddress", read_address(m, body))
      [] typ = RESPONSE_ADDRESS -> AddressAttribute("ResponseAddress", read_address(m, body))
      [] typ = CHANGED_ADDRESS -> AddressAttribute("ChangedAddress", read_address(m, body))
      [] typ = SOURCE_ADDRESS -> AddressAttribute("SourceAddress", read_address(m, body))
      [] typ = REFLECTED_FROM -> AddressAttribute("ReflectedFrom", read_address(m, body))
      [] typ = MESSAGE_INTEGRITY -> IntegrityAttribute(ReadBytes(m, body, 20))
      [] typ = CHANGE_REQUEST -> ChangeRequestAttribute(ReadU32(m, body))
      [] OTHER ->
            IF IsMandatoryCode(typ)
            THEN Err("InvalidData", "Unknown mandatory field")
            ELSE Ok([val |-> [tag |-> "UnknownOptional"],
                     pos |-> SeekFromCurrent(body, len)])

\* Line 142: len is the result of read_u16.
ReadAttributeLen(m, typ, len) ==
    IF len.tag # "Ok" THEN len
    ELSE ReadAttributeBody(m, typ, len.v.val, len.v.pos)

\* Line 141: typ is the result of read_u16.
ReadAttributeType(m, typ) ==
    IF typ.tag # "Ok" THEN typ
    ELSE ReadAttributeLen(m, typ.v.val, ReadU16(m, typ.v.pos))

Attribute_read(m, p) == ReadAttributeType(m, ReadU16(m, p))

(***************************************************************************)
(* ring::digest::digest(&SHA1, bytes).  SHA-1 is a library function, not   *)
(* code of this repository: it is modelled as a fixed function from byte   *)
(* strings to 20 bytes (a checksum of the bytes, spread over 20 bytes).      *)
(***************************************************************************)
RECURSIVE DigestAcc(_, _, _)
DigestAcc(m, lo, hi) ==
    IF lo > hi THEN 7
    ELSE IF lo = hi THEN m[lo] + 1
    ELSE LET mid == (lo + hi) \div 2
         IN  (DigestAcc(m, lo, mid) * 33 + DigestAcc(m, mid + 1, hi) * 5 + (hi - lo))
                 % 65521

digest(m) ==
    LET acc == DigestAcc(m, 1, Len(m))
        b(i) == ((acc \div i) + 7 * i) % 256
    IN  << b(1), b(2), b(3), b(4), b(5), b(6), b(7), b(8), b(9), b(10),
           b(11), b(12), b(13), b(14), b(15), b(16), b(17), b(18), b(19), b(20) >>

(***************************************************************************)
(* StunCodec::read_binding_response (lines 97-136).  Its locals are the    *)
(* record s = [pos, mapped_address, source_address, changed_address,       *)
(* message_integrity, reflected_from].                                     *)
(***************************************************************************)
NewLocals(p) ==
    [pos |-> p, mapped_address |-> None, source_address |-> None,
     changed_address |-> None, message_integrity |-> None,
     reflected_from |-> None]

\* The match of lines 108-119 on attr, the result of Attribute::read: "next"
\* (the loop goes on with the locals s), "break", or "return" (the function
\* returns res).
AttributeTag(attr) == IF attr.tag = "Ok" THEN attr.v.val.tag ELSE "Err"

MatchAttribute(s, attr, t) ==
    IF t = "MappedAddress" /\ ~s.mapped_address.some
    THEN [ctl |-> "next",
          s |-> [s EXCEPT !.mapped_address = Some(attr.v.val.v), !.pos = attr.v.pos]]
    ELSE IF t = "SourceAddress" /\ ~s.source_address.some
    THEN [ctl |-> "next",
          s |-> [s EXCEPT !.source_address = Some(attr.v.val.v), !.pos = attr.v.pos]]
    ELSE IF t = "ChangedAddress" /\ ~s.changed_address.some
    THEN [ctl |-> "next",
          s |-> [s EXCEPT !.changed_address = Some(attr.v.val.v), !.pos = attr.v.pos]]
    ELSE IF t = "ReflectedFrom" /\ ~s.reflected_from.some
    THEN [ctl |-> "next",
          s |-> [s EXCEPT !.reflected_from = Some(attr.v.val.v), !.pos = attr.v.pos]]
    ELSE IF t = "MessageIntegrity" /\ ~s.message_integrity.some
    THEN [ctl |-> "next",
          s |-> [s EXCEPT !.message_integrity = Some(attr.v.val.v), !.pos = attr.v.pos]]
    ELSE IF t = "UnknownOptional"
    THEN [ctl |-> "next", s |-> [s EXCEPT !.pos = attr.v.pos]]
    ELSE IF attr.tag = "Err" /\ attr.kind = "UnexpectedEof"
    THEN [ctl |-> "break", s |-> s]
    ELSE [ctl |-> "return", s |-> s,
          res |-> Err("InvalidData", "Unknown mandatory attribute!")]

MatchRead(s, attr) == MatchAttribute(s, attr, AttributeTag(attr))

\* One iteration of the loop (lines 106-120).
LoopBody(m, s) == MatchRead(s, Attribute_read(m, s.pos))

\* &msg[..msg.len() - 24] (line 123)
\* A faulty variant: the TLV header of the hash left in the digest.
IntegrityCoveredShort(m) == SubSeq(m, 1, Len(m) - 20)

IntegrityCovered(m) == SubSeq(m, 1, Len(m) - 24)

\* The struct expression (lines 130-135).
\* A faulty variant: a missing ChangedAddress replaced by a default.
BuildResponseLax(s) ==
    IF ~s.mapped_address.some THEN Err("InvalidData", "MappedAddress missing!")
    ELSE IF ~s.source_address.some THEN Err("InvalidData", "SourceAddress missing!")
    ELSE Ok([mapped_address |-> s.mapped_address.v,
             source_address |-> s.source_address.v,
             changed_address |-> IF s.changed_address.some
                                 THEN s.changed_address.v
                                 ELSE SocketAddrV4(<<0, 0, 0, 0>>, 0),
             reflected_from |-> s.reflected_from])

BuildResponse(s) ==
    IF ~s.mapped_address.some THEN Err("InvalidData", "MappedAddress missing!")
    ELSE IF ~s.source_address.some THEN Err("InvalidData", "SourceAddress missing!")
    ELSE IF ~s.changed_address.some THEN Err("InvalidData", "ChangedAddress missing!")
    ELSE Ok([mapped_address |-> s.mapped_address.v,
             source_address |-> s.source_address.v,
             changed_address |-> s.changed_address.v,
             reflected_from |-> s.reflected_from])

\* After the loop (lines 122-135).  The slice msg[..msg.len() - 24] panics
\* when the message is shorter than 24 bytes.
AfterLoop(m, s) ==
    IF s.message_integrity.some /\ Len(m) < 24
    THEN Panic("slice index out of range")
    ELSE IF s.message_integrity.some
            /\ digest(IntegrityCovered(m)) # s.message_integrity.v
    THEN Err("InvalidData", "Message integrity violated!")
    ELSE BuildResponse(s)

RECURSIVE AttrLoop(_, _)
LoopControl(m, r) ==
    IF r.ctl = "next" THEN AttrLoop(m, r.s)
    ELSE IF r.ctl = "break" THEN AfterLoop(m, r.s)
    ELSE r.res

AttrLoop(m, s) == LoopControl(m, LoopBody(m, s))

read_binding_response(m, p) == AttrLoop(m, NewLocals(p))

(***************************************************************************)
(* StunCodec::decode (lines 277-298).                                      *)
(***************************************************************************)
\* A faulty variant: the check made on the second half.
TransIdInvalidSecond(t1, t2) == t2 # U64Zero

TransIdInvalid(t1, t2) == t1 # U64Zero          \* trans_id1 != 0

\* Lines 285-295: the check of the transaction id and the dispatch: "return"
\* (decode returns res) or "bind" (read_binding_response is called with the
\* cursor at pos).
Dispatch(msg_type, trans_id1, t2, p) ==
    IF TransIdInvalid(trans_id1, t2)
    THEN [ctl |-> "return", res |-> Err("InvalidData", "Invalid transaction ID!")]
    ELSE IF msg_type = BINDING_RESPONSE
    THEN [ctl |-> "bind", pos |-> p, trans_id2 |-> t2]
    ELSE IF msg_type \in {BINDING_ERROR, SHARED_SECRET_RESPONSE, SHARED_SECRET_ERROR}
    THEN [ctl |-> "return", res |-> Panic("not implemented")]
    ELSE [ctl |-> "return", res |-> Err("InvalidData", "Unknown message type!")]

\* Lines 280-283, one definition per read; each takes the result of the read.
DecodeTransId2(msg_type, trans_id1, t2) ==
    IF t2.tag # "Ok" THEN [ctl |-> "return", res |-> t2]
    ELSE Dispatch(msg_type, trans_id1, t2.v.val, t2.v.pos)

DecodeTransId1(m, msg_type, trans_id1) ==
    IF trans_id1.tag # "Ok" THEN [ctl |-> "return", res |-> trans_id1]
    ELSE DecodeTransId2(msg_type, trans_id1.v.val, ReadU64(m, trans_id1.v.pos))

DecodeMsgLen(m, msg_type, msg_len) ==
    IF msg_len.tag # "Ok" THEN [ctl |-> "return", res |-> msg_len]
    ELSE DecodeTransId1(m, msg_type, ReadU64(m, msg_len.v.pos))

DecodeMsgType(m, msg_type) ==
    IF msg_type.tag # "Ok" THEN [ctl |-> "return", res |-> msg_type]
    ELSE DecodeMsgLen(m, msg_type.v.val, ReadU16(m, msg_type.v.pos))

DecodeHeader(m) == DecodeMsgType(m, ReadU16(m, 0))

\* .map(|r| Response::Bind(r)) and .map(|v| (trans_id2, v))  (lines 290, 297)
WrapResponse(r, t2) ==
    IF r.tag = "Ok"
    THEN Ok([trans_id |-> t2, response |-> [tag |-> "Bind", v |-> r.v]])
    ELSE r

DecodeBody(m, h) ==
    IF h.ctl = "return" THEN h.res
    ELSE WrapResponse(read_binding_response(m, h.pos), h.trans_id2)

StunCodec_decode(m) == DecodeBody(m, DecodeHeader(m))

(***************************************************************************)
(* Inputs.  A datagram handed to decode is a 20-byte header followed by a  *)
(* sequence of attribute chunks; a chunk is named by its kind.  Well-formed *)
(* kinds are whole TLVs, the others end before their declared end (the     *)
(* datagram is cut inside them when they come last, and runs into the next *)
(* chunk otherwise).                                                       *)
(***************************************************************************)
MaxTail == 2            \* chunks after the leading mandatory addresses
MaxUser == 4            \* bytes of a user name

Mapped == SocketAddrV4(<<192, 0, 2, 1>>, 54321)
Source == SocketAddrV4(<<198, 51, 100, 7>>, 3478)
Changed == SocketAddrV4(<<198, 51, 100, 8>>, 3479)
Reflected == SocketAddrV4(<<127, 0, 1, 2>>, 80)

AddressRecord(a) == << 0, 1, a.port \div 256, a.port % 256 >> \o a.ip

RawTlv(typ, len, body) == << typ \div 256, typ % 256, len \div 256, len % 256 >> \o body

\* The bytes of a chunk of kind k that follows the bytes `before`.
Chunk(k, before) ==
    CASE k = "MA" -> RawTlv(1, 8, AddressRecord(Mapped))
      [] k = "SA" -> RawTlv(4, 8, AddressRecord(Source))
      [] k = "CA" -> RawTlv(5, 8, AddressRecord(Changed))
      [] k = "RF" -> RawTlv(11, 8, AddressRecord(Reflected))
      [] k = "MIg" -> RawTlv(8, 20, digest(before))            \* the hash of all before it
      [] k = "MIb" -> RawTlv(8, 20, Fill(20, 238))     \* some other hash
      [] k = "UO" -> RawTlv(65535, 4, <<1, 2, 3, 4>>)          \* 0xffff
      [] k = "UO8" -> RawTlv(32768, 0, << >>)                  \* 0x8000
      [] k = "UM" -> RawTlv(12, 4, <<0, 0, 0, 0>>)             \* 0x000c
      [] k = "UM7" -> RawTlv(32767, 0, << >>)                  \* 0x7fff
      [] k = "CR" -> RawTlv(3, 4, <<0, 0, 0, 32>>)             \* a change request
      [] k = "MAf" -> RawTlv(1, 8, <<0, 2, 0, 80, 10, 0, 0, 1>>)  \* family 2
      [] k = "RFt" -> RawTlv(11, 8, <<0, 1, 0, 80, 127, 0>>)   \* 6 of 8 body bytes
      [] k = "MIt" -> RawTlv(8, 20, Fill(10, 238))     \* 10 of 20 body bytes
      [] k = "CRt" -> RawTlv(3, 4, <<0, 0>>)                   \* 2 of 4 body bytes
      [] k = "UOt" -> RawTlv(65535, 8, <<1, 2, 3, 4>>)         \* 4 of 8 body bytes
      [] k = "HDt" -> <<0, 11>>                                \* half a type/length pair

WellFormedKinds == {"MA", "SA", "CA", "RF", "MIg", "MIb", "UO", "UO8", "UM", "UM7", "CR", "MAf"}
TruncatedKinds == {"RFt", "MIt", "CRt", "UOt", "HDt"}
UnknownOptionalKinds == {"UO", "UO8", "UOt"}
IntegrityKinds == {"MIg", "MIb", "MIt"}

TailKinds == WellFormedKinds \cup TruncatedKinds

Bases == { << >>, <<"MA", "SA", "CA">>, <<"CA", "SA", "MA">>,
           <<"SA", "CA">>, <<"MA", "CA">>, <<"MA", "SA">> }

SeqsUpTo(S, n) == UNION { [1..i -> S] : i \in 0..n }

Header(typ, len, id1, id2) == WriteU16(typ) \o WriteU16(len) \o WriteU64(id1) \o WriteU64(id2)

RECURSIVE Append2(_, _)
Append2(before, kinds) ==
    IF kinds = << >> THEN before
    ELSE Append2(before \o Chunk(Head(kinds), before), Tail(kinds))

RECURSIVE BodyLen(_)
BodyLen(kinds) ==
    IF kinds = << >> THEN 0 ELSE Len(Chunk(Head(kinds), << >>)) + BodyLen(Tail(kinds))

Datagram(typ, id1, id2, kinds) ==
    Append2(Header(typ, AsU16(BodyLen(kinds)), id1, id2), kinds)

Correlator == <<0, 1, 9029, 26505>>          \* 0x0000_0001_2345_6789

MsgTypes == {BINDING_REQUEST, BINDING_RESPONSE, BINDING_ERROR, SHARED_SECRET_REQUEST,
             SHARED_SECRET_RESPONSE, SHARED_SECRET_ERROR, 3}
TransIds1 == {U64Zero, <<0, 0, 0, 1>>, <<256, 0, 0, 0>>}
TransIds2 == {U64Zero, Correlator, <<65535, 65535, 65535, 65535>>}
HeaderCuts == {0, 1, 2, 3, 4, 11, 12, 13, 19, 20, 32, 56}

Idle ==
    /\ msg = << >> /\ layout = [attrs |-> << >>, cut |-> 0] /\ pos = 0
    /\ mapped_address = None /\ source_address = None /\ changed_address = None
    /\ message_integrity = None /\ reflected_from = None
    /\ trans_id2 = U64Zero /\ trunc = FALSE

IdleEncode == out = None /\ buf = << >> /\ buf0 = << >> /\ addr = None

\* Binding Responses with a sound header and every attribute stream.
InitDecodeStreams ==
    \E b \in Bases, t \in SeqsUpTo(TailKinds, MaxTail) :
        /\ msg = Datagram(BINDING_RESPONSE, U64Zero, Correlator, b \o t)
        /\ layout = [attrs |-> b \o t, cut |-> 0]

\* Every header, on a complete attribute stream, cut to n bytes.
InitDecodeHeaders ==
    \E typ \in MsgTypes, id1 \in TransIds1, id2 \in TransIds2, n \in HeaderCuts :
        LET d == Datagram(typ, id1, id2, <<"MA", "SA", "CA">>)
        IN  /\ msg = SubSeq(d, 1, n)
            /\ layout = [attrs |-> <<"MA", "SA", "CA">>, cut |-> Len(d) - n]

InitDecode ==
    /\ call = "decode" /\ pc = "decode" /\ res = Pending
    /\ InitDecodeStreams \/ InitDecodeHeaders
    /\ pos = 0
    /\ mapped_address = None /\ source_address = None /\ changed_address = None
    /\ message_integrity = None /\ reflected_from = None
    /\ trans_id2 = U64Zero /\ trunc = FALSE
    /\ IdleEncode

\* Requests handed to encode.
Endpoints ==
    { SocketAddrV4(<<0, 0, 0, 0>>, 0), SocketAddrV4(<<127, 0, 1, 2>>, 54321),
      SocketAddrV6(<<0, 0, 0, 0, 0, 0, 0, 1>>, 3478) }
UserBytes == {102, 111}                      \* "f", "o"
BindRequests ==
    [response_address : {None} \cup { Some(e) : e \in Endpoints },
     change_request : {None, Some("Ip"), Some("Port"), Some("IpAndPort")},
     username : {None} \cup { Some(u) : u \in SeqsUpTo(UserBytes, MaxUser) }]
Requests == { [tag |-> "Bind", v |-> b] : b \in BindRequests } \cup { [tag |-> "SharedSecret"] }

InitEncode ==
    /\ call = "encode" /\ pc = "encode" /\ res = Pending
    /\ Idle
    /\ \E t \in {U64Zero, Correlator}, r \in Requests :
          out = Some([trans_id |-> t, dst |-> SocketAddrV4(<<0, 0, 0, 0>>, 0), req |-> r])
    /\ buf \in { << >>, <<170>> }
    /\ buf0 = buf
    /\ addr = None

\* Endpoints and raw records handed to the address codec.
Octets == {0, 1, 127, 255}
Ports == {0, 80, 54321, 65535}
AddressInputs ==
    { SocketAddrV4(<<a, b, c, d>>, p) : a \in {127, 255}, b \in Octets, c \in {0, 1},
                                       d \in Octets, p \in Ports }
    \cup { SocketAddrV6(<<0, 0, 0, 0, 0, 0, 0, 1>>, p) : p \in Ports }
RawRecords ==
    { SubSeq(<<r, f, ph, 80, 10, 0, a, 1>>, 1, n) :
        r \in {0, 255}, f \in {0, 1, 2, 4, 255}, ph \in {0, 212}, a \in {0, 255}, n \in 0..8 }

InitAddress ==
    /\ call = "address" /\ res = Pending
    /\ Idle
    /\ out = None /\ buf0 = << >>
    /\ \/ pc = "encode_address" /\ addr \in { Some(e) : e \in AddressInputs } /\ buf = << >>
       \/ pc = "read_address" /\ addr = None /\ buf \in RawRecords

Init == InitDecode \/ InitEncode \/ InitAddress

(***************************************************************************)
(* The steps of a call.                                                    *)
(***************************************************************************)
Locals ==
    [pos |-> pos, mapped_address |-> mapped_address, source_address |-> source_address,
     changed_address |-> changed_address, message_integrity |-> message_integrity,
     reflected_from |-> reflected_from]

SetLocals(s) ==
    /\ pos' = s.pos
    /\ mapped_address' = s.mapped_address
    /\ source_address' = s.source_address
    /\ changed_address' = s.changed_address
    /\ message_integrity' = s.message_integrity
    /\ reflected_from' = s.reflected_from

\* The attribute read at p ran out of input after its type/length pair was
\* read, or skipped an unknown optional body past the end of the buffer.
RanPastEnd(m, a) ==
    \/ a.tag = "Err" /\ a.kind = "UnexpectedEof"
    \/ a.tag = "Ok" /\ a.v.pos > Len(m)

MidAttributeEof(m, p) == p + 4 <= Len(m) /\ RanPastEnd(m, Attribute_read(m, p))

\* decode, lines 277-295: the header and the dispatch on the message type.
DecodeStep(h) ==
    IF h.ctl = "bind"
    THEN /\ pc' = "attrs"
         /\ pos' = h.pos
         /\ trans_id2' = h.trans_id2
         /\ res' = res
    ELSE /\ pc' = "done"
         /\ res' = h.res
         /\ UNCHANGED <<pos, trans_id2>>

Decode ==
    /\ pc = "decode"
    /\ DecodeStep(DecodeHeader(msg))
    /\ UNCHANGED <<call, msg, layout, mapped_address, source_address, changed_address,
                   message_integrity, reflected_from, trunc, out, buf, buf0, addr>>

\* read_binding_response, lines 106-120: one iteration of the attribute loop.
LoopStep(r) ==
    /\ SetLocals(r.s)
    /\ pc' = CASE r.ctl = "next" -> "attrs"
               [] r.ctl = "break" -> "verify"
               [] r.ctl = "return" -> "done"
    /\ res' = IF r.ctl = "return" THEN r.res ELSE res

ReadAttribute ==
    /\ pc = "attrs"
    /\ LoopStep(LoopBody(msg, Locals))
    /\ trunc' = (trunc \/ MidAttributeEof(msg, pos))
    /\ UNCHANGED <<call, msg, layout, trans_id2, out, buf, buf0, addr>>

\* read_binding_response, lines 122-135, and decode's line 297.
Verify ==
    /\ pc = "verify"
    /\ res' = WrapResponse(AfterLoop(msg, Locals), trans_id2)
    /\ pc' = "done"
    /\ UNCHANGED <<call, msg, layout, pos, mapped_address, source_address, changed_address,
                   message_integrity, reflected_from, trans_id2, trunc, out, buf,
                   buf0, addr>>

\* encode, lines 300-331.
EncodeStep(e) == res' = e.res /\ buf' = e.buf

Encode ==
    /\ pc = "encode"
    /\ EncodeStep(StunCodec_encode(out.v, buf))
    /\ pc' = "done"
    /\ UNCHANGED <<call, msg, layout, pos, mapped_address, source_address, changed_address,
                   message_integrity, reflected_from, trans_id2, trunc, out, buf0, addr>>

\* Attribute::encode_address on addr; the record goes to buf.
EncodeAddressStep(e) ==
    IF e.tag = "Ok"
    THEN buf' = e.v /\ pc' = "read_address" /\ res' = res
    ELSE buf' = buf /\ pc' = "done" /\ res' = e

EncodeAddress ==
    /\ pc = "encode_address"
    /\ EncodeAddressStep(encode_address(addr.v))
    /\ UNCHANGED <<call, msg, layout, pos, mapped_address, source_address, changed_address,
                   message_integrity, reflected_from, trans_id2, trunc, out, buf0, addr>>

\* Attribute::read_address on a cursor at the start of buf.
ReadAddressStep(r) == res' = IF r.tag = "Ok" THEN Ok(r.v.val) ELSE r

ReadAddress ==
    /\ pc = "read_address"
    /\ ReadAddressStep(read_address(buf, 0))
    /\ pc' = "done"
    /\ UNCHANGED <<call, msg, layout, pos, mapped_address, source_address, changed_address,
                   message_integrity, reflected_from, trans_id2, trunc, out, buf,
                   buf0, addr>>

Next == Decode \/ ReadAttribute \/ Verify \/ Encode \/ EncodeAddress \/ ReadAddress

Spec == Init /\ [][Next]_vars

(***************************************************************************)
(* Properties.                                                             *)
(***************************************************************************)
DecodeDone == call = "decode" /\ pc = "done"

\* The header was sound and the attribute loop was entered.
LoopEntered == call = "decode" /\ DecodeHeader(msg).ctl = "bind"

\* Some attribute read from the message, at some offset after the header,
\* yields the attribute [tag, v].
DecodedFromStream(tag, v) ==
    \E p \in 20..Len(msg) :
        LET a == Attribute_read(msg, p)
        IN  a.tag = "Ok" /\ a.v.val = [tag |-> tag, v |-> v]

\* C1: decode of a Binding Response returns a BindResponse only if
\* MappedAddress, SourceAddress and ChangedAddress were each decoded from the
\* attribute stream, and the response carries exactly those values; when one
\* of the three is absent after the attribute loop, decode returns an error.
C1_AllOrNothing ==
    DecodeDone =>
        /\ res.tag = "Ok" =>
              /\ mapped_address.some /\ source_address.some /\ changed_address.some
              /\ DecodedFromStream("MappedAddress", mapped_address.v)
              /\ DecodedFromStream("SourceAddress", source_address.v)
              /\ DecodedFromStream("ChangedAddress", changed_address.v)
              /\ res.v.response =
                    [tag |-> "Bind",
                     v |-> [mapped_address |-> mapped_address.v,
                            source_address |-> source_address.v,
                            changed_address |-> changed_address.v,
                            reflected_from |-> reflected_from]]
        /\ (LoopEntered /\ ~(mapped_address.some /\ source_address.some
                             /\ changed_address.some))
              => res.tag = "Err"

\* A Binding Response with the three addresses and a reflected-from address
\* was decoded.
C1_Witness ==
    /\ DecodeDone /\ res.tag = "Ok"
    /\ reflected_from.some
    /\ res.v.response.v.mapped_address = Mapped

EightZeros == <<0, 0, 0, 0, 0, 0, 0, 0>>

\* Bytes 4..12 of the buffer are there and are not all zero.
NonZeroFirstHalf == Len(msg) >= 12 /\ SubSeq(msg, 5, 12) # EightZeros

NoLocalsSet ==
    /\ mapped_address = None /\ source_address = None /\ changed_address = None
    /\ message_integrity = None /\ reflected_from = None

\* C7 (as stated): decoding any buffer whose first transaction-id half is
\* non-zero fails with the malformed-transaction-id error, whatever the rest
\* of the buffer is.
C7_AnyBufferMalformed ==
    (DecodeDone /\ NonZeroFirstHalf) =>
        res = Err("InvalidData", "Invalid transaction ID!")

\* C7 (amended): decoding a buffer of 20 bytes or more whose first
\* transaction-id half is non-zero fails with the malformed-transaction-id
\* error, whatever the message type, the declared length and the rest are; a
\* buffer that ends before byte 20 fails with UnexpectedEof instead.  Either
\* way no message is returned and the message type is never dispatched on.
C7_MalformedTransactionId ==
    (call = "decode" /\ NonZeroFirstHalf) =>
        /\ pc \in {"decode", "done"}
        /\ NoLocalsSet
        /\ pc = "done" =>
              IF Len(msg) >= 20
              THEN res = Err("InvalidData", "Invalid transaction ID!")
              ELSE res.tag = "Err" /\ res.kind = "UnexpectedEof"

\* A whole Binding Error message (whose dispatch would not return) with a
\* non-zero first half was rejected for its transaction id.
C7_Witness ==
    /\ DecodeDone /\ NonZeroFirstHalf /\ Len(msg) >= 20
    /\ ReadU16(msg, 0).v.val = BINDING_ERROR
    /\ res = Err("InvalidData", "Invalid transaction ID!")

\* C5: for every IPv4 endpoint e, encode_address(e) is the 8 bytes
\* [0, 1, port big-endian, the 4 octets] and read_address of them returns e;
\* encoding an IPv6 endpoint fails; decoding a record whose family byte is
\* not 1 fails.
C5_AddressRoundTrip ==
    /\ (call = "address" /\ addr.some /\ addr.v.fam = "V4" /\ pc # "encode_address") =>
          /\ buf = << 0, 1, addr.v.port \div 256, addr.v.port % 256,
                      addr.v.ip[1], addr.v.ip[2], addr.v.ip[3], addr.v.ip[4] >>
          /\ pc = "done" => res = Ok(addr.v)
    /\ (call = "address" /\ addr.some /\ addr.v.fam = "V6" /\ pc # "encode_address") =>
          /\ pc = "done" /\ res.tag = "Err" /\ buf = << >>
    /\ (call = "address" /\ ~addr.some /\ pc = "done" /\ Len(buf) >= 2 /\ buf[2] # 1) =>
          res.tag = "Err"

\* The endpoint 127.x.x.x:54321 went through encode_address and read_address.
C5_Witness ==
    /\ call = "address" /\ pc = "done" /\ addr.some
    /\ addr.v.fam = "V4" /\ addr.v.port = 54321 /\ addr.v.ip[1] = 127
    /\ res = Ok(addr.v)

Count(kinds, k) == Cardinality({ i \in 1..Len(kinds) : kinds[i] = k })

Last(kinds) == kinds[Len(kinds)]

\* The message is a whole Binding Response: a sound header, then the three
\* mandatory addresses once each, at most one reflected-from address and
\* unknown optional attributes, in any order, and last a MessageIntegrity.
TrailingIntegrity ==
    /\ LoopEntered /\ layout.cut = 0
    /\ Len(layout.attrs) >= 4
    /\ Last(layout.attrs) \in {"MIg", "MIb"}
    /\ \A i \in 1..(Len(layout.attrs) - 1) :
            layout.attrs[i] \in {"MA", "SA", "CA", "RF", "UO", "UO8"}
    /\ Count(layout.attrs, "MA") = 1 /\ Count(layout.attrs, "SA") = 1
    /\ Count(layout.attrs, "CA") = 1 /\ Count(layout.attrs, "RF") <= 1

ReceivedHash == SubSeq(msg, Len(msg) - 19, Len(msg))

DigestOfAllButLast24 == digest(SubSeq(msg, 1, Len(msg) - 24))

\* C3: for a Binding Response that carries the three mandatory addresses and
\* a trailing MessageIntegrity, decode succeeds if and only if the received
\* 20-byte hash equals the digest of the message without its final 24
\* bytes; when it differs decode fails with the integrity violation.
C3_IntegrityDecides ==
    (DecodeDone /\ TrailingIntegrity) =>
        /\ res.tag = "Ok" <=> ReceivedHash = DigestOfAllButLast24
        /\ ReceivedHash # DigestOfAllButLast24 =>
              res = Err("InvalidData", "Message integrity violated!")

\* A response with a matching trailing hash was decoded.
C3_Witness ==
    /\ DecodeDone /\ TrailingIntegrity
    /\ ReceivedHash = DigestOfAllButLast24
    /\ message_integrity = Some(ReceivedHash)
    /\ res.tag = "Ok"

KnownTypes == {MAPPED_ADDRESS, RESPONSE_ADDRESS, CHANGED_ADDRESS, SOURCE_ADDRESS,
               REFLECTED_FROM, MESSAGE_INTEGRITY, CHANGE_REQUEST}

TypeAt(p) == msg[p + 1] * 256 + msg[p + 2]

LengthAt(p) == msg[p + 3] * 256 + msg[p + 4]

\* The loop is about to read a whole type/length pair with an unknown code.
UnknownNext ==
    /\ call = "decode" /\ pc = "attrs"
    /\ pos + 4 <= Len(msg)
    /\ TypeAt(pos) \notin KnownTypes

\* An unknown code up to 0x7fff fails the decode; one above is skipped: the
\* cursor moves past the 4-byte TLV header and the declared length, nothing
\* else changes and the loop goes on.
UnknownStep ==
    UnknownNext =>
        IF TypeAt(pos) <= 32767
        THEN pc' = "done" /\ res'.tag = "Err"
        ELSE /\ pc' = "attrs"
             /\ pos' = pos + 4 + LengthAt(pos)
             /\ UNCHANGED <<mapped_address, source_address, changed_address,
                            message_integrity, reflected_from, res>>

\* The message without its last chunk.
WithoutLast == SubSeq(msg, 1, Len(msg) - Len(Chunk(Last(layout.attrs), << >>)))

\* The message is a Binding Response of whole attributes that decodes, with
\* one more unknown optional attribute appended.
OptionalAppended ==
    /\ LoopEntered /\ layout.cut = 0
    /\ Len(layout.attrs) >= 1
    /\ Last(layout.attrs) \in UnknownOptionalKinds
    /\ \A i \in 1..(Len(layout.attrs) - 1) : layout.attrs[i] \in WellFormedKinds
    /\ StunCodec_decode(WithoutLast).tag = "Ok"

CarriesIntegrity ==
    \E i \in 1..(Len(layout.attrs) - 1) : layout.attrs[i] \in IntegrityKinds

\* C4 (as stated, its last part): an otherwise valid Binding Response with an
\* appended unknown optional attribute still decodes to the same
\* BindResponse.
C4_AppendedAlwaysIgnored ==
    (DecodeDone /\ OptionalAppended) => res = StunCodec_decode(WithoutLast)

C4_AppendedIgnored ==
    (DecodeDone /\ OptionalAppended /\ ~CarriesIntegrity) =>
        res = StunCodec_decode(WithoutLast)

\* C4 (amended): an attribute with an unknown type code fails the decode of
\* the whole Binding Response when the code is <= 0x7fff; when it is above,
\* the cursor advances by exactly the declared length past the 4-byte TLV
\* header and the loop continues, so a valid Binding Response of whole
\* attributes that carries no MessageIntegrity still decodes to the same
\* BindResponse when a 0xffff attribute is appended to it.
C4_UnknownAttributes == [][UnknownStep]_vars /\ []C4_AppendedIgnored

\* A response of three addresses and an appended 0xffff attribute was decoded.
C4_Witness ==
    /\ DecodeDone /\ OptionalAppended /\ ~CarriesIntegrity
    /\ Last(layout.attrs) = "UO" /\ Len(layout.attrs) >= 4
    /\ res.tag = "Ok"

IsBindingResponse == Len(msg) >= 2 /\ ReadU16(msg, 0).v.val = BINDING_RESPONSE

\* decode of a Binding Response never aborts, and an accepted
\* MessageIntegrity implies a buffer of 24 bytes or more.
NoAbort ==
    (call = "decode" /\ IsBindingResponse) =>
        /\ res.tag # "Panic"
        /\ pc = "done" => res.tag \in {"Ok", "Err"}
        /\ message_integrity.some => Len(msg) >= 24
        /\ pc \in {"decode", "attrs", "verify", "done"}

\* An iteration after which the loop goes on moved the cursor by 4 bytes or
\* more; an iteration that starts with fewer than 4 bytes left ends the loop.
LoopProgress ==
    (call = "decode" /\ pc = "attrs") =>
        /\ pc' = "attrs" => pos' >= pos + 4
        /\ pos + 4 > Len(msg) => pc' # "attrs"

\* C10: decode of a Binding Response terminates with a BindResponse or an
\* error and never aborts: each iteration of the attribute loop ends the loop
\* or moves the cursor forward by at least 4 bytes, and whenever a
\* MessageIntegrity was accepted the buffer is at least 24 bytes long.
C10_Terminates == []NoAbort /\ [][LoopProgress]_vars

\* A response with an accepted MessageIntegrity and a skipped optional
\* attribute was decoded.
C10_Witness ==
    /\ DecodeDone /\ IsBindingResponse
    /\ message_integrity.some
    /\ \E i \in 1..Len(layout.attrs) : layout.attrs[i] \in UnknownOptionalKinds
    /\ res.tag = "Ok"

\* The attribute the loop is about to read is a well-formed MappedAddress,
\* SourceAddress, ChangedAddress, ReflectedFrom or MessageIntegrity whose
\* field is already set.
IsDuplicate(a) ==
    /\ a.tag = "Ok"
    /\ \/ a.v.val.tag = "MappedAddress" /\ mapped_address.some
       \/ a.v.val.tag = "SourceAddress" /\ source_address.some
       \/ a.v.val.tag = "ChangedAddress" /\ changed_address.some
       \/ a.v.val.tag = "ReflectedFrom" /\ reflected_from.some
       \/ a.v.val.tag = "MessageIntegrity" /\ message_integrity.some

DuplicateStep ==
    (call = "decode" /\ pc = "attrs" /\ IsDuplicate(Attribute_read(msg, pos))) =>
        /\ pc' = "attrs"
        /\ pos' = Attribute_read(msg, pos).v.pos
        /\ UNCHANGED <<mapped_address, source_address, changed_address,
                       message_integrity, reflected_from, res>>

\* C8 (as stated): a second occurrence of MappedAddress, SourceAddress,
\* ChangedAddress, ReflectedFrom or MessageIntegrity is silently ignored:
\* decode does not fail because of it, the loop continues with the following
\* attributes, and the field keeps the value of the first occurrence.
C8_DuplicateIgnored == [][DuplicateStep]_vars

\* C9 (as stated): when the buffer ends inside an attribute body, after a
\* type/length pair was read, decode of the Binding Response fails and never
\* returns a BindResponse.
C9_TruncationFails == (DecodeDone /\ trunc) => res.tag = "Err"

\* The message the claims expect for a Bind request: the TLVs of the present
\* fields and the 20-byte header before them.
ExpectedAttributes(r) ==
    (IF r.response_address.some
     THEN <<0, 2, 0, 8, 0, 1, r.response_address.v.port \div 256,
            r.response_address.v.port % 256>> \o r.response_address.v.ip
     ELSE << >>)
    \o (IF r.change_request.some
        THEN <<0, 3, 0, 4, 0, 0, 0,
               CASE r.change_request.v = "Ip" -> 32
                 [] r.change_request.v = "Port" -> 64
                 [] r.change_request.v = "IpAndPort" -> 96 >>
        ELSE << >>)
    \o (IF r.username.some
        THEN <<0, 6, 0, 4 * ((Len(r.username.v) + 3) \div 4)>> \o r.username.v
             \o SubSeq(<<0, 0, 0>>, 1, (4 - (Len(r.username.v) % 4)) % 4)
        ELSE << >>)

ExpectedMessage(o) ==
    <<0, 1, Len(ExpectedAttributes(o.req.v)) \div 256,
            Len(ExpectedAttributes(o.req.v)) % 256>>
    \o EightZeros \o WriteU64(o.trans_id) \o ExpectedAttributes(o.req.v)

EncodeDone == call = "encode" /\ pc = "done" /\ out.v.req.tag = "Bind"

\* C2 (as stated): for every Bind request and correlator, encode appends
\* exactly the type code 0x0001, the 16-bit length of the attribute bytes,
\* eight zero bytes, the big-endian correlator and one TLV per present field
\* in the order response_address, change_request, username.
C2_EncodeLayout ==
    EncodeDone => res.tag = "Ok" /\ buf = buf0 \o ExpectedMessage(out.v)

\* The layout of C2 for the requests whose response_address is absent or IPv4.
EncodeLayoutV4 ==
    (EncodeDone /\ ~(out.v.req.v.response_address.some
                     /\ out.v.req.v.response_address.v.fam # "V4")) =>
        res = Ok(out.v.dst) /\ buf = buf0 \o ExpectedMessage(out.v)

\* C6 (as stated): encode is total: for every correlator, destination and
\* Bind request it completes, appends the message bytes and returns the
\* destination; it never aborts.
C6_EncodeTotal ==
    EncodeDone =>
        /\ res = Ok(out.v.dst)
        /\ Len(buf) >= Len(buf0) + 20
        /\ SubSeq(buf, 1, Len(buf0)) = buf0

====
